---- MODULE Spec2Model ----
(***************************************************************************)
(* Model of the TUF update client of src/main.go: trust bootstrap,         *)
(* manifest resolution, version comparison, consent prompt, authenticated  *)
(* artifact download, digest verification and the polling loop of main.    *)
(*                                                                         *)
(* Strings are modelled by what the code reads of them:                    *)
(*   - a version string is the sequence of the numeric fields that the     *)
(*     layout "2006.01.02-15.04.05" cuts it into; <<>> is the empty string *)
(*     and a sequence of another length or with a field out of range is a  *)
(*     string time.Parse rejects;                                          *)
(*   - a hex digest is a sequence of one-character strings;                *)
(*   - a file's contents is a sequence of bytes;                           *)
(*   - a line typed by the operator is a sequence of characters;           *)
(*   - an instant is a day, a second of the day and a nanosecond, and a    *)
(*     time.Duration a sign with days, seconds and nanoseconds.            *)
(***************************************************************************)
EXTENDS Integers, Sequences, FiniteSets, TLC

\* ------------------------------------------------------------------ bounds

\* Largest byte value in an artifact body.
MaxByte == 1

\* Most calls of InitTrustOnFirstUse in a row.
MaxCalls == 9

\* Longest line typed when gettingUserAnswer is tried on its own.
MaxLine == 3

\* ------------------------------------------------------- time and versions

EmptyString == <<>>

\* The zero time.Time that time.Parse returns with an error: 0001-01-01 00:00:00.
\* A time is the number of days since that date and the second of the day.
ZeroTime == [d |-> 0, s |-> 0]

IsLeap(y) == (y % 4 = 0) /\ ((y % 100 # 0) \/ (y % 400 = 0))

DaysIn(m, y) ==
    IF m = 2 THEN (IF IsLeap(y) THEN 29 ELSE 28)
    ELSE IF m \in {4, 6, 9, 11} THEN 30 ELSE 31

RECURSIVE DaysBeforeMonth(_, _)
DaysBeforeMonth(m, y) ==
    IF m <= 1 THEN 0 ELSE DaysBeforeMonth(m - 1, y) + DaysIn(m - 1, y)

\* Days from 0001-01-01 to the first day of year y (negative for year 0).
DaysBeforeYear(y) ==
    365 * (y - 1) + ((y - 1) \div 4) - ((y - 1) \div 100) + ((y - 1) \div 400)

\* time.Parse(layout, value) for the layout "2006.01.02-15.04.05": the value
\* must have the six fields, each in range; otherwise the zero time and an error.
TimeParse(value) ==
    IF /\ Len(value) = 6
       /\ value[1] \in 0..9999
       /\ value[2] \in 1..12
       /\ value[3] >= 1 /\ value[3] <= DaysIn(value[2], value[1])
       /\ value[4] \in 0..23
       /\ value[5] \in 0..59
       /\ value[6] \in 0..59
    THEN [err |-> FALSE,
          t |-> [d |-> DaysBeforeYear(value[1]) + DaysBeforeMonth(value[2], value[1])
                        + (value[3] - 1),
                 s |-> value[4] * 3600 + value[5] * 60 + value[6]]]
    ELSE [err |-> TRUE, t |-> ZeroTime]

Before(t, u) == (t.d < u.d) \/ (t.d = u.d /\ t.s < u.s)
After(t, u) == Before(u, t)

\* A variant of NewVersion with the comparison the wrong way round.
NewVersionSwapped(currentVersion, indexVersion) ==
    LET c == TimeParse(currentVersion).t
        i == TimeParse(indexVersion).t
    IN  IF After(c, i) THEN 1 ELSE 0

\* NewVersion: both strings are parsed, a parse error is only printed, and the
\* (possibly zero) times are compared.
NewVersion(currentVersion, indexVersion) ==
    LET currentVersionParsed == TimeParse(currentVersion).t
        indexVersionParsed == TimeParse(indexVersion).t
    IN  IF Before(currentVersionParsed, indexVersionParsed) THEN 1
        ELSE IF After(currentVersionParsed, indexVersionParsed) THEN 0
        ELSE 0

\* -------------------------------------------------------------- expiration

\* An instant of time.Now(): days since 0001-01-01, second of the day and
\* nanosecond of the second.
Instant(d, s, ns) == [d |-> d, s |-> s, ns |-> ns]

InstantBefore(t, u) ==
    \/ t.d < u.d
    \/ t.d = u.d /\ t.s < u.s
    \/ t.d = u.d /\ t.s = u.s /\ t.ns < u.ns

\* t.AddDate(years, 0, 0) for the time of a parsed version: the same month,
\* day and clock in the later year, a day that year's month does not have
\* running over into the next month.
AddDate(value, years) ==
    Instant(DaysBeforeYear(value[1] + years) + DaysBeforeMonth(value[2], value[1] + years)
                + (value[3] - 1),
            value[4] * 3600 + value[5] * 60 + value[6],
            0)

\* Nanoseconds in a second; the odd part and the power of two of the
\* nanoseconds in a second, a minute and an hour.
Nano == 1000000000
SecondOdd == 1953125
SecondTwos == 9
MinuteOdd == 29296875
MinuteTwos == 11
HourOdd == 439453125
HourTwos == 13

\* A time.Duration: its sign and its length in days, seconds and nanoseconds
\* (the count of nanoseconds itself is wider than the integers at hand).
Duration(neg, days, secs, ns) == [neg |-> neg, days |-> days, secs |-> secs, ns |-> ns]

Longer(a, b) ==
    \/ a.days > b.days
    \/ a.days = b.days /\ a.secs > b.secs
    \/ a.days = b.days /\ a.secs = b.secs /\ a.ns > b.ns

\* The largest and the smallest Duration: 2^63 - 1 and -2^63 nanoseconds.
MaxDuration == Duration(FALSE, 106751, 85636, 854775807)
MinDuration == Duration(TRUE, 106751, 85636, 854775808)

\* The time from t to u, for t not after u.
Elapsed(t, u, neg) ==
    LET carryNs == IF u.ns < t.ns THEN 1 ELSE 0
        carryS == IF u.s - carryNs < t.s THEN 1 ELSE 0
    IN  Duration(neg,
                 u.d - t.d - carryS,
                 u.s - t.s - carryNs + 86400 * carryS,
                 u.ns - t.ns + Nano * carryNs)

\* t.Sub(u): the duration t - u, or the largest or smallest Duration when
\* t - u is out of its range.
Sub(t, u) ==
    IF InstantBefore(t, u)
    THEN LET m == Elapsed(t, u, TRUE) IN IF Longer(m, MinDuration) THEN MinDuration ELSE m
    ELSE LET m == Elapsed(u, t, FALSE) IN IF Longer(m, MaxDuration) THEN MaxDuration ELSE m

RECURSIVE Log2(_)
Log2(n) == IF n < 2 THEN 0 ELSE 1 + Log2(n \div 2)

RECURSIVE Pow2(_)
Pow2(k) == IF k <= 0 THEN 1 ELSE 2 * Pow2(k - 1)

\* The nanoseconds missing to the next whole unit when less than a second
\* is missing, otherwise a second: rest is what is over the whole units in
\* seconds, unit the seconds in a unit.
Gap(rest, unit, ns) == IF rest = unit - 1 /\ ns > 0 THEN Nano - ns ELSE Nano

\* d.Hours(), d.Minutes() and d.Seconds() add, in float64, the whole units
\* and the fraction of a unit that is over. With whole units in
\* [2^e, 2^(e+1)) the sum has 52 - e binary places, so it is the next whole
\* number when at most 2^(e-53) of a unit is missing, the unit being
\* odd * 2^twos nanoseconds.
NextWhole(e, gap, odd, twos) ==
    LET k == 53 - e - twos
    IN  k <= 30 /\ gap <= odd \div Pow2(k)

\* Division and remainder of Go, which truncate towards zero.
Quo(a, b) == IF a >= 0 THEN a \div b ELSE 0 - ((0 - a) \div b)
Rem(a, b) == a - b * Quo(a, b)

Signed(neg, n) == IF neg THEN 0 - n ELSE n

\* int(d.Hours()) and int(d.Minutes())
IntHours(d) ==
    LET q == d.days * 24 + d.secs \div 3600
        up == q >= 1 /\ NextWhole(Log2(q), Gap(d.secs % 3600, 3600, d.ns), HourOdd, HourTwos)
    IN  Signed(d.neg, IF up THEN q + 1 ELSE q)

IntMinutes(d) ==
    LET q == d.days * 1440 + d.secs \div 60
        up == q >= 1 /\ NextWhole(Log2(q), Gap(d.secs % 60, 60, d.ns), MinuteOdd, MinuteTwos)
    IN  Signed(d.neg, IF up THEN q + 1 ELSE q)

\* int(d.Seconds()) % 60. The whole seconds are 86400 * days + secs; their
\* 32nd part gives the exponent, and a day being a multiple of a minute,
\* the remainder by 60 is that of the seconds of the day.
IntSecondsRem60(d) ==
    LET q32 == d.days * 2700 + d.secs \div 32
        up == q32 >= 1 /\ NextWhole(5 + Log2(q32), Gap(0, 1, d.ns), SecondOdd, SecondTwos)
    IN  Signed(d.neg, ((d.secs % 60) + (IF up THEN 1 ELSE 0)) % 60)

NoReport == [printed |-> FALSE, years |-> 0, days |-> 0, hours |-> 0, minutes |-> 0,
             seconds |-> 0]

\* PrintExpirationDate: nothing but the error is printed for a version that
\* does not parse; otherwise the time from now to two years after the
\* version is printed in years of 365 days, days, hours, minutes and seconds.
PrintExpirationDate(currentVersion, currentDate) ==
    IF TimeParse(currentVersion).err THEN NoReport
    ELSE LET expirationDateOfCurrentVersion == AddDate(currentVersion, 2)
             validTimeOfCurrentVersion == Sub(expirationDateOfCurrentVersion, currentDate)
             totalHours == IntHours(validTimeOfCurrentVersion)
             totalDays == Quo(totalHours, 24)
         IN  [printed |-> TRUE,
              years |-> Quo(totalDays, 365),
              days |-> Rem(totalDays, 365),
              hours |-> Rem(totalHours, 24),
              minutes |-> Rem(IntMinutes(validTimeOfCurrentVersion), 60),
              seconds |-> IntSecondsRem60(validTimeOfCurrentVersion)]

\* ---------------------------------------------------------------- digests

Bytes == 0..MaxByte

\* The bodies the artifact store can serve and the contents a file can have:
\* the empty one and those of one byte.
Contents == {<<>>} \cup {<<b>> : b \in Bytes}

LowerHexDigits ==
    <<"0", "1", "2", "3", "4", "5", "6", "7", "8", "9", "a", "b", "c", "d", "e", "f">>
UpperHexDigits ==
    <<"0", "1", "2", "3", "4", "5", "6", "7", "8", "9", "A", "B", "C", "D", "E", "F">>

\* The digest of a byte sequence, standing for the 32 bytes of sha256.Sum:
\* one byte, different for different contents of the model (every byte of
\* the input and its length change it).
RECURSIVE Sum256(_)
Sum256(content) ==
    IF content = <<>> THEN 171
    ELSE (Sum256(SubSeq(content, 1, Len(content) - 1))
           + 37 * (content[Len(content)] + 1)) % 256

\* fmt.Sprintf("%x", hash): lower-case hexadecimal.
HexLower(n) == <<LowerHexDigits[(n \div 16) + 1], LowerHexDigits[(n % 16) + 1]>>
HexUpper(n) == <<UpperHexDigits[(n \div 16) + 1], UpperHexDigits[(n % 16) + 1]>>

\* strings.ToLower on a hex string (used to state case-insensitive equality).
ToLowerChar(c) ==
    IF \E k \in 11..16 : UpperHexDigits[k] = c
    THEN LowerHexDigits[CHOOSE k \in 11..16 : UpperHexDigits[k] = c]
    ELSE c
ToLower(str) == [k \in 1..Len(str) |-> ToLowerChar(str[k])]
EqualFold(a, b) == ToLower(a) = ToLower(b)

\* ---------------------------------------------------------------- manifest

\* The product whose entry main reads in the index.
Product == "nebula-standalone"

\* The zero value of indexInfo, which a lookup of an absent key yields.
ZeroInfo == [Version |-> EmptyString, Sha256 |-> EmptyString]

EmptyMap == [k \in {} |-> ZeroInfo]

\* The bytes of an index: nil (what DownloadTargetIndex returns with an
\* error), a payload that is no JSON object, or a JSON object from product
\* names to indexInfo records.
NilBytes == [kind |-> "nil", obj |-> EmptyMap]
GarbageBytes == [kind |-> "garbage", obj |-> EmptyMap]
JsonBytes(product, version, sha) ==
    [kind |-> "json", obj |-> (product :> [Version |-> version, Sha256 |-> sha])]

\* json.Unmarshal into a map[string]indexInfo: on error the map stays nil.
Unmarshal(bytes) ==
    IF bytes.kind = "json" THEN [err |-> FALSE, data |-> bytes.obj]
    ELSE [err |-> TRUE, data |-> EmptyMap]

\* data[key] on a Go map: the zero value for an absent key.
Lookup(data, key) == IF key \in DOMAIN data THEN data[key] ELSE ZeroInfo

\* The version strings the published indexes carry.
VersionLeapDay == <<2024, 2, 29, 23, 59, 59>>
VersionMarch == <<2024, 3, 1, 0, 0, 0>>
VersionYearZero == <<0, 6, 1, 0, 0, 0>>
VersionNoSuchDay == <<2023, 2, 29, 0, 0, 0>>

\* The indexes the TUF repository can publish.
RemoteManifests ==
    { GarbageBytes,
      JsonBytes("other-product", VersionMarch, HexLower(Sum256(<<0>>))),
      JsonBytes(Product, VersionLeapDay, HexLower(Sum256(<<0>>))),
      JsonBytes(Product, VersionMarch, HexLower(Sum256(<<1>>))),
      JsonBytes(Product, VersionMarch, HexUpper(Sum256(<<1>>))),
      JsonBytes(Product, VersionYearZero, HexLower(Sum256(<<1>>))),
      JsonBytes(Product, VersionNoSuchDay, HexLower(Sum256(<<0>>))) }

\* ------------------------------------------------------------- file system

\* A file of the working directory: absent, or present with its contents.
NoFile == [exists |-> FALSE, data |-> <<>>]
FileOf(content) == [exists |-> TRUE, data |-> content]

\* tmp/index.json when it does not exist.
NoIndexFile == [kind |-> "absent", obj |-> EmptyMap]

\* downloadArtifact's default output name, and the name a Content-Disposition
\* header can carry.
DefaultFileName == "tmp/downloaded-file"
ServedFileName == "nebula-standalone.bin"
FileNames == {DefaultFileName, ServedFileName}

\* --------------------------------------------------------- trust bootstrap

\* What the GET of 1.root.json can come to: the request fails, the body
\* cannot be read, the body is the root metadata, or the body is something
\* else (the status is not looked at); and whether root.json can be written.
RootFetches == {"request_failed", "read_failed", "root", "other_body"}

\* The result of InitTrustOnFirstUse: whether it returned an error, root.json
\* afterwards, whether the GET was issued and whether root.json was written.
TrustResult(err, root, requested, written) ==
    [err |-> err, root |-> root, requested |-> requested, written |-> written]

\* A variant of InitTrustOnFirstUse that does not look for root.json first.
InitTrustAlways(root, fetch, writable) ==
    IF fetch \in {"request_failed", "read_failed"} THEN TrustResult(TRUE, root, TRUE, FALSE)
    ELSE IF ~writable THEN TrustResult(TRUE, root, TRUE, FALSE)
    ELSE TrustResult(FALSE, IF fetch = "root" THEN "valid" ELSE "invalid", TRUE, TRUE)

\* InitTrustOnFirstUse: nothing to do when root.json is there; otherwise the
\* body of the answer is written to root.json.
InitTrustOnFirstUse(root, fetch, writable) ==
    IF root # "absent" THEN TrustResult(FALSE, root, FALSE, FALSE)
    ELSE IF fetch \in {"request_failed", "read_failed"}
         THEN TrustResult(TRUE, root, TRUE, FALSE)
    ELSE IF ~writable THEN TrustResult(TRUE, root, TRUE, FALSE)
    ELSE TrustResult(FALSE, IF fetch = "root" THEN "valid" ELSE "invalid", TRUE, TRUE)

\* ------------------------------------------------------ manifest resolution

\* Where the updater of go-tuf can fail: nowhere, while it builds and
\* refreshes the trusted metadata, or while it downloads the target.
EngineFaults == {"none", "refresh", "download"}

\* A variant of DownloadTargetIndex that goes on without root.json.
DownloadTargetIndexUnrooted(root, localIndex, remoteIndex, fault) ==
    IF root = "invalid" \/ fault = "refresh"
    THEN [tb |-> NilBytes, found |-> 0, err |-> TRUE]
    ELSE IF localIndex = remoteIndex THEN [tb |-> localIndex, found |-> 1, err |-> FALSE]
    ELSE IF fault = "download" THEN [tb |-> NilBytes, found |-> 0, err |-> TRUE]
    ELSE [tb |-> remoteIndex, found |-> 0, err |-> FALSE]

\* DownloadTargetIndex: root.json is read, the updater refreshes the metadata
\* and looks for tmp/index.json matching the target's length and hashes; a
\* match is returned with 1, otherwise the target is downloaded and returned
\* with 0. Every error returns nil bytes and 0.
DownloadTargetIndex(root, localIndex, remoteIndex, fault) ==
    IF root = "absent" THEN [tb |-> NilBytes, found |-> 0, err |-> TRUE]
    ELSE IF root = "invalid" \/ fault = "refresh"
         THEN [tb |-> NilBytes, found |-> 0, err |-> TRUE]
    ELSE IF localIndex = remoteIndex THEN [tb |-> localIndex, found |-> 1, err |-> FALSE]
    ELSE IF fault = "download" THEN [tb |-> NilBytes, found |-> 0, err |-> TRUE]
    ELSE [tb |-> remoteIndex, found |-> 0, err |-> FALSE]

\* ------------------------------------------------------------ consent gate

IsDigit(c) == \E k \in 1..10 : LowerHexDigits[k] = c
DigitValue(c) == (CHOOSE k \in 1..10 : LowerHexDigits[k] = c) - 1

\* The value of the longest run of digits at the start of a line.
RECURSIVE ScanDigits(_, _, _)
ScanDigits(line, value, seen) ==
    IF line # <<>> /\ IsDigit(Head(line))
    THEN ScanDigits(Tail(line), 10 * value + DigitValue(Head(line)), TRUE)
    ELSE [value |-> value, seen |-> seen]

\* A line without the spaces it begins with.
RECURSIVE SkipSpace(_)
SkipSpace(line) ==
    IF line # <<>> /\ Head(line) = " " THEN SkipSpace(Tail(line)) ELSE line

\* fmt.Scanf("%d", &userAnswer) on one line of input: after leading spaces,
\* an optional sign and a run of digits set the variable, and what follows
\* them is not looked at; without a digit the variable keeps its zero value.
Scanf(line) ==
    LET text == SkipSpace(line)
        signed == text # <<>> /\ Head(text) \in {"+", "-"}
        rest == IF signed THEN Tail(text) ELSE text
        num == ScanDigits(rest, 0, FALSE)
    IN  IF ~num.seen THEN 0
        ELSE IF signed /\ Head(text) = "-" THEN 0 - num.value
        ELSE num.value

\* The lines the operator can type.
InputLines ==
    { <<>>, <<"1">>, <<"2">>, <<"x">>, <<"1", "x">>, <<"0", "1">>, <<"-", "1">>,
      <<"1", "2">> }

\* gettingUserAnswer: the prompt is printed and the answer scanned.
gettingUserAnswer(line) == Scanf(line)

\* -------------------------------------------------------- artifact fetcher

\* http.StatusOK.
StatusOK == 200
\* The statuses the artifact store answers with.
Statuses == {StatusOK, 204, 404}

\* The Content-Disposition headers of the answer, cut into their tokens:
\* none, a bare disposition, one with a filename parameter, one with another
\* parameter, and one whose parameter has no value.
Dispositions ==
    { <<>>, <<"attachment">>, <<"attachment", "filename", ServedFileName>>,
      <<"attachment", "size", "1">>, <<"attachment", "filename">> }

\* mime.ParseMediaType: the parameters of the header, or an error.
ParseMediaType(v) ==
    IF Len(v) = 1 THEN [err |-> FALSE, params |-> [k \in {} |-> ""]]
    ELSE IF Len(v) = 3 THEN [err |-> FALSE, params |-> (v[2] :> v[3])]
    ELSE [err |-> TRUE, params |-> [k \in {} |-> ""]]

\* The file name downloadArtifact saves under.
OutputFileName(contentDisposition) ==
    IF contentDisposition # <<>>
       /\ ~ParseMediaType(contentDisposition).err
       /\ "filename" \in DOMAIN ParseMediaType(contentDisposition).params
    THEN ParseMediaType(contentDisposition).params["filename"]
    ELSE DefaultFileName

\* What one call of downloadArtifact meets: the key file, the token exchange,
\* the request, the answer, and the disk (copied is the number of bytes that
\* reach the file when the copy fails).
FetchEnv(key, token, net, status, disposition, body, disk, copied) ==
    [key |-> key, token |-> token, net |-> net, status |-> status,
     disposition |-> disposition, body |-> body, disk |-> disk, copied |-> copied]

FetchEnvs ==
    { FetchEnv(k, "ok", "ok", StatusOK, <<>>, <<>>, "ok", 0) : k \in {"unreadable", "invalid"} }
    \cup { FetchEnv("ok", "failed", "ok", StatusOK, <<>>, <<>>, "ok", 0) }
    \cup { FetchEnv("ok", "ok", "failed", StatusOK, <<>>, <<>>, "ok", 0) }
    \cup { FetchEnv("ok", "ok", "ok", st, d, b, "ok", 0) :
             st \in Statuses \ {StatusOK}, d \in Dispositions, b \in Contents }
    \cup { FetchEnv("ok", "ok", "ok", StatusOK, d, b, "ok", 0) :
             d \in Dispositions, b \in Contents }
    \cup { FetchEnv("ok", "ok", "ok", StatusOK, d, b, "create_failed", 0) :
             d \in Dispositions, b \in Contents }
    \cup UNION { { FetchEnv("ok", "ok", "ok", StatusOK, d, b, "copy_failed", n) :
                     d \in Dispositions, n \in 0..Len(b) } : b \in Contents }

\* The result of downloadArtifact: whether readFile ended the process, the
\* error returned ("nil" for none), the files afterwards, the status of the
\* answer (0 when there was none) and the name written to ("" when none).
FetchResult(exit, err, fs, status, name) ==
    [exit |-> exit, err |-> err, fs |-> fs, status |-> status, name |-> name]

\* A variant of downloadArtifact that creates the output file before it
\* looks at the status.
downloadArtifactCreateFirst(fs, env) ==
    LET fileName == OutputFileName(env.disposition)
    IN  IF env.key = "unreadable" THEN FetchResult(TRUE, "read_key", fs, 0, "")
        ELSE IF env.key = "invalid" THEN FetchResult(FALSE, "credentials", fs, 0, "")
        ELSE IF env.token = "failed" THEN FetchResult(FALSE, "token", fs, 0, "")
        ELSE IF env.net = "failed" THEN FetchResult(FALSE, "request", fs, 0, "")
        ELSE IF env.status # StatusOK
             THEN FetchResult(FALSE, "status",
                              [fs EXCEPT ![fileName] = FileOf(<<>>)], env.status, fileName)
        ELSE FetchResult(FALSE, "nil",
                         [fs EXCEPT ![fileName] = FileOf(env.body)], env.status, fileName)

\* downloadArtifact: the key file is read (readFile ends the process when it
\* cannot), the token obtained, the request made; any status but 200 is an
\* error; then the output file is created under the name of the header, or
\* the default one, and the body copied into it.
downloadArtifact(fs, env) ==
    LET fileName == OutputFileName(env.disposition)
    IN  IF env.key = "unreadable" THEN FetchResult(TRUE, "read_key", fs, 0, "")
        ELSE IF env.key = "invalid" THEN FetchResult(FALSE, "credentials", fs, 0, "")
        ELSE IF env.token = "failed" THEN FetchResult(FALSE, "token", fs, 0, "")
        ELSE IF env.net = "failed" THEN FetchResult(FALSE, "request", fs, 0, "")
        ELSE IF env.status # StatusOK THEN FetchResult(FALSE, "status", fs, env.status, "")
        ELSE IF env.disk = "create_failed"
             THEN FetchResult(FALSE, "create", fs, env.status, "")
        ELSE IF env.disk = "copy_failed"
             THEN FetchResult(FALSE, "copy",
                              [fs EXCEPT ![fileName] =
                                  FileOf(SubSeq(env.body, 1, env.copied))],
                              env.status, fileName)
        ELSE FetchResult(FALSE, "nil",
                         [fs EXCEPT ![fileName] = FileOf(env.body)], env.status, fileName)

\* ------------------------------------------------------ integrity verifier

\* ComputeSHA256: the lower-case hex digest of the whole file, or an error
\* when the file cannot be opened.
ComputeSHA256(fs, filePath) ==
    IF ~fs[filePath].exists THEN [err |-> TRUE, hash |-> EmptyString]
    ELSE [err |-> FALSE, hash |-> HexLower(Sum256(fs[filePath].data))]

\* verifyingDownloadedFile: the digest the index declares for the product is
\* compared, as a string, with the digest of the file.
verifyingDownloadedFile(indexBytes, fs, DonwloadedFilePath) ==
    LET indexHash == Lookup(Unmarshal(indexBytes).data, Product).Sha256
        downloaded == ComputeSHA256(fs, DonwloadedFilePath)
    IN  IF downloaded.err THEN 0
        ELSE IF indexHash = downloaded.hash THEN 1
        ELSE 0

\* ------------------------------------------------------------------- main

VARIABLES
    pc,                 \* where main is: boot, start_resolve, start_fetch,
                        \* sleep, resolve, prompt, fetch or exited
    exitCode,           \* the argument of os.Exit, -1 while the process runs
    rootFile,           \* tmp/root.json: absent, valid or invalid
    indexFile,          \* tmp/index.json
    files,              \* the files downloadArtifact writes
    remote,             \* the index the TUF repository publishes
    targetIndexFile,    \* the three results of DownloadTargetIndex
    foundDesiredTargetIndexLocally,
    resolveErr,
    currentVersion,     \* the running version
    indexVersion,       \* the version the index gives for the product
    newProductVersion,  \* the result of NewVersion
    userAnswer,         \* the result of gettingUserAnswer
    url,                \* the artifact URL, as the version it is built from
    dl,                 \* the last call of downloadArtifact and its result
    verficationAnswer,  \* the result of verifyingDownloadedFile
    now,                \* time.Now() when PrintExpirationDate is tried on its own
    report,             \* what PrintExpirationDate then printed
    stdin,              \* the line on standard input when gettingUserAnswer
                        \* is tried on its own
    handled,            \* whether an earlier iteration downloaded the index
                        \* now published and went through to its sleep
    events              \* what main has done since the process started or,
                        \* in the loop, since the iteration began

vars ==
    <<pc, exitCode, rootFile, indexFile, files, remote, targetIndexFile,
      foundDesiredTargetIndexLocally, resolveErr, currentVersion, indexVersion,
      newProductVersion, userAnswer, url, dl, verficationAnswer, now, report,
      stdin, handled, events>>

NoUrl == [built |-> FALSE, version |-> EmptyString]
UrlFor(version) == [built |-> TRUE, version |-> version]

NoDownload == [called |-> FALSE, err |-> "nil", status |-> 0, name |-> ""]
DownloadOf(r) == [called |-> TRUE, err |-> r.err, status |-> r.status, name |-> r.name]

\* The variables of one iteration of the loop, before it begins.
IterationReset ==
    /\ targetIndexFile' = NilBytes
    /\ foundDesiredTargetIndexLocally' = 0
    /\ resolveErr' = FALSE
    /\ indexVersion' = EmptyString
    /\ newProductVersion' = 0
    /\ userAnswer' = 0
    /\ url' = NoUrl
    /\ dl' = NoDownload
    /\ verficationAnswer' = 0
    /\ events' = <<>>

Init ==
    /\ pc = "boot"
    /\ exitCode = -1
    /\ rootFile \in {"absent", "valid"}
    /\ indexFile \in {NoIndexFile} \cup RemoteManifests
    /\ files \in {[n \in FileNames |-> NoFile],
                  [n \in FileNames |-> IF n = DefaultFileName THEN FileOf(<<0>>) ELSE NoFile]}
    /\ remote \in RemoteManifests
    /\ targetIndexFile = NilBytes
    /\ foundDesiredTargetIndexLocally = 0
    /\ resolveErr = FALSE
    /\ currentVersion = EmptyString
    /\ indexVersion = EmptyString
    /\ newProductVersion = 0
    /\ userAnswer = 0
    /\ url = NoUrl
    /\ dl = NoDownload
    /\ verficationAnswer = 0
    /\ now = Instant(0, 0, 0)
    /\ report = NoReport
    /\ stdin = <<>>
    /\ handled = FALSE
    /\ events = <<>>

\* os.WriteFile of the index: the file holds the bytes, or is left as it was
\* when the write fails.
WriteIndexFile(old, bytes, writable) == IF writable THEN bytes ELSE old

\* A call of InitTrustOnFirstUse by main, which logs its error and goes on.
TrustCall ==
    /\ \E fetch \in RootFetches, writable \in BOOLEAN :
         LET r == InitTrustOnFirstUse(rootFile, fetch, writable)
         IN  /\ rootFile' = r.root
             /\ events' = events \o (IF r.requested THEN <<"get_root">> ELSE <<>>)
                                 \o (IF r.written THEN <<"write_root">> ELSE <<>>)
                                 \o <<"bootstrap">>
    /\ UNCHANGED <<exitCode, indexFile, files, remote, targetIndexFile,
                   foundDesiredTargetIndexLocally, resolveErr, currentVersion,
                   indexVersion, newProductVersion, userAnswer, url, dl,
                   verficationAnswer, now, report, stdin, handled>>

\* Lines 56-65: the environment is set up and trust is bootstrapped; an
\* error is logged and main goes on.
Bootstrap ==
    /\ pc = "boot"
    /\ TrustCall
    /\ pc' = "start_resolve"

\* Lines 68-107: the first resolution; the index is written when it was not
\* found locally, parsed, and the artifact URL built from its version.
StartResolve ==
    /\ pc = "start_resolve"
    /\ \E fault \in EngineFaults, writable \in BOOLEAN :
         LET r == DownloadTargetIndex(rootFile, indexFile, remote, fault)
             version == Lookup(Unmarshal(r.tb).data, Product).Version
         IN  /\ targetIndexFile' = r.tb
             /\ foundDesiredTargetIndexLocally' = r.found
             /\ resolveErr' = r.err
             /\ indexFile' = IF r.found = 0
                             THEN WriteIndexFile(indexFile, r.tb, writable)
                             ELSE indexFile
             /\ indexVersion' = version
             /\ url' = UrlFor(version)
             /\ events' = events
                    \o <<"resolve">>
                    \o (IF r.found = 0 THEN <<"write_index">> ELSE <<"most_updated">>)
                    \o <<"parse", "build_url">>
    /\ pc' = "start_fetch"
    /\ UNCHANGED <<exitCode, rootFile, files, remote, currentVersion,
                   newProductVersion, userAnswer, dl, verficationAnswer, now, report, stdin,
                   handled>>

\* What a call of downloadArtifact adds to the events.
FetchEvents(r) ==
    <<"fetch">>
    \o (IF r.status # 0 \/ r.err = "request" THEN <<"request">> ELSE <<>>)
    \o (IF r.name # "" THEN <<"write_artifact">> ELSE <<>>)

\* A variant of FetchIsFatal that goes on after an error of downloadArtifact.
FetchIsFatalOnlyInReadFile(r) == r.exit

\* Whether main ends the process after downloadArtifact (lines 111-114 and
\* 190-193; readFile has ended it already when exit is set).
FetchIsFatal(r) == r.exit \/ r.err # "nil"

\* Lines 110-132: the first download, without a prompt; the file under the
\* default name is verified and the running version set.
StartFetch ==
    /\ pc = "start_fetch"
    /\ \E env \in FetchEnvs :
         LET r == downloadArtifact(files, env)
             answer == verifyingDownloadedFile(targetIndexFile, r.fs, DefaultFileName)
         IN  /\ files' = r.fs
             /\ dl' = DownloadOf(r)
             /\ IF FetchIsFatal(r)
                THEN /\ pc' = "exited"
                     /\ exitCode' = 1
                     /\ events' = events \o FetchEvents(r) \o <<"exit">>
                     /\ UNCHANGED <<verficationAnswer, currentVersion>>
                ELSE /\ pc' = "sleep"
                     /\ verficationAnswer' = answer
                     /\ currentVersion' =
                            Lookup(Unmarshal(targetIndexFile).data, Product).Version
                     /\ events' = events \o FetchEvents(r) \o <<"verify">>
                            \o (IF answer = 1 THEN <<"success">> ELSE <<"mismatch">>)
                            \o <<"expiry">>
                     /\ UNCHANGED exitCode
    /\ UNCHANGED <<rootFile, indexFile, remote, targetIndexFile,
                   foundDesiredTargetIndexLocally, resolveErr, indexVersion,
                   newProductVersion, userAnswer, url, now, report, stdin, handled>>

\* Whether the iteration that ends downloaded the index and went through
\* with it (lines 143-212).
FreshIndexHandled ==
    /\ events # <<>>
    /\ events[1] = "resolve"
    /\ foundDesiredTargetIndexLocally = 0
    /\ ~resolveErr

\* Lines 132 and 218: the sleep ends and an iteration of the loop begins.
Sleep ==
    /\ pc = "sleep"
    /\ pc' = "resolve"
    /\ IterationReset
    /\ handled' = (handled \/ FreshIndexHandled)
    /\ UNCHANGED <<exitCode, rootFile, indexFile, files, remote, currentVersion,
                   now, report, stdin>>

\* A variant of AfterResolve that ends the process on a cache hit.
AfterResolveExitOnHit(found) == IF found = 0 THEN "prompt" ELSE "exited"

\* A variant of AfterResolve that handles a cache hit like a download.
AfterResolveAlwaysPrompt(found) == "prompt"

\* Where the loop goes after the resolution (lines 143 and 214).
AfterResolve(found) == IF found = 0 THEN "prompt" ELSE "sleep"

\* Lines 137-170: the resolution of an iteration. When the index was not
\* found locally it is written, parsed and its version compared with the
\* running one, and main goes on to the prompt whatever the comparison gave.
LoopResolve ==
    /\ pc = "resolve"
    /\ \E fault \in EngineFaults, writable \in BOOLEAN :
         LET r == DownloadTargetIndex(rootFile, indexFile, remote, fault)
             version == Lookup(Unmarshal(r.tb).data, Product).Version
             newer == NewVersion(currentVersion, version)
         IN  /\ targetIndexFile' = r.tb
             /\ foundDesiredTargetIndexLocally' = r.found
             /\ resolveErr' = r.err
             /\ pc' = AfterResolve(r.found)
             /\ IF pc' = "prompt"
                THEN /\ indexFile' = WriteIndexFile(indexFile, r.tb, writable)
                     /\ indexVersion' = version
                     /\ newProductVersion' = newer
                     /\ events' = events
                            \o <<"resolve", "write_index", "parse", "compare">>
                            \o (IF newer = 1 THEN <<"new_product">> ELSE <<"no_new_product">>)
                ELSE /\ events' = events \o <<"resolve", "most_updated">>
                     /\ UNCHANGED <<indexFile, indexVersion, newProductVersion>>
    /\ UNCHANGED <<exitCode, rootFile, files, remote, currentVersion, userAnswer,
                   url, dl, verficationAnswer, now, report, stdin, handled>>

\* A variant of AfterAnswer that downloads whatever the answer.
AfterAnswerAlwaysFetch(answer) == "fetch"

\* Where the loop goes after the answer (lines 176 and 204).
AfterAnswer(answer) == IF answer = 1 THEN "fetch" ELSE "sleep"

\* Lines 174-186 and 204-212: the operator is asked; on 1 the URL is built,
\* otherwise the pending update and the expiration date are printed.
Prompt ==
    /\ pc = "prompt"
    /\ \E line \in InputLines :
         /\ userAnswer' = gettingUserAnswer(line)
         /\ pc' = AfterAnswer(userAnswer')
         /\ IF pc' = "fetch"
            THEN /\ url' = UrlFor(indexVersion)
                 /\ events' = events \o <<"prompt", "build_url">>
            ELSE /\ url' = url
                 /\ events' = events \o <<"prompt", "pending", "expiry">>
    /\ UNCHANGED <<exitCode, rootFile, indexFile, files, remote, targetIndexFile,
                   foundDesiredTargetIndexLocally, resolveErr, currentVersion,
                   indexVersion, newProductVersion, dl, verficationAnswer, now, report, stdin,
                   handled>>

\* A variant of RunningVersionAfterFetch that adopts the version of the index
\* once its artifact has been downloaded and verified.
RunningVersionAdopted(current, index, answer) == IF answer = 1 THEN index ELSE current

\* The running version after the download and verification of an iteration
\* (lines 189-202): nothing is assigned to currentVersion.
RunningVersionAfterFetch(current, index, answer) == current

\* Lines 189-202: the download of an iteration and the verification of the
\* file under the default name.
LoopFetch ==
    /\ pc = "fetch"
    /\ \E env \in FetchEnvs :
         LET r == downloadArtifact(files, env)
             answer == verifyingDownloadedFile(targetIndexFile, r.fs, DefaultFileName)
         IN  /\ files' = r.fs
             /\ dl' = DownloadOf(r)
             /\ IF FetchIsFatal(r)
                THEN /\ pc' = "exited"
                     /\ exitCode' = 1
                     /\ events' = events \o FetchEvents(r) \o <<"exit">>
                     /\ UNCHANGED <<verficationAnswer, currentVersion>>
                ELSE /\ pc' = "sleep"
                     /\ verficationAnswer' = answer
                     /\ currentVersion' =
                            RunningVersionAfterFetch(currentVersion, indexVersion, answer)
                     /\ events' = events \o FetchEvents(r) \o <<"verify">>
                            \o (IF answer = 1 THEN <<"success">> ELSE <<"mismatch">>)
                     /\ UNCHANGED exitCode
    /\ UNCHANGED <<rootFile, indexFile, remote, targetIndexFile,
                   foundDesiredTargetIndexLocally, resolveErr,
                   indexVersion, newProductVersion, userAnswer, url, now, report, stdin, handled>>

\* The TUF repository publishes another index. main reads the repository
\* only in DownloadTargetIndex, so what was published since the last
\* resolution is taken when the next one is about to begin.
Publish ==
    /\ pc = "resolve"
    /\ remote' \in RemoteManifests \ {remote}
    /\ handled' = FALSE
    /\ UNCHANGED <<pc, exitCode, rootFile, indexFile, files, targetIndexFile,
                   foundDesiredTargetIndexLocally, resolveErr, currentVersion,
                   indexVersion, newProductVersion, userAnswer, url, dl,
                   verficationAnswer, now, report, stdin, events>>

Next ==
    \/ Bootstrap
    \/ StartResolve
    \/ StartFetch
    \/ Sleep
    \/ LoopResolve
    \/ Prompt
    \/ LoopFetch
    \/ Publish

Spec == Init /\ [][Next]_vars

\* main is one thread and each of its calls returns: the network answers,
\* the operator types a line, the sleep ends. The repository publishes
\* nothing new meanwhile.
\* A step of main, as opposed to one of the repository.
Step ==
    \/ Bootstrap
    \/ StartResolve
    \/ StartFetch
    \/ Sleep
    \/ LoopResolve
    \/ Prompt
    \/ LoopFetch

\* The process starts on a machine without an index or an artifact.
InitLive ==
    /\ Init
    /\ indexFile = NoIndexFile
    /\ files = [n \in FileNames |-> NoFile]

SpecLive == InitLive /\ [][Step]_vars /\ WF_vars(Step)

\* ------------------------------------------- the comparator on its own

\* Version strings to compare: empty, rejected by time.Parse (no such day,
\* no such month, too short, no such hour) and valid ones, among them the
\* zero time itself, a year before it, and neighbours one second apart.
VersionSamples ==
    { EmptyString, VersionNoSuchDay, <<2024, 13, 1, 0, 0, 0>>, <<2024, 1, 1>>,
      <<2024, 2, 29, 24, 0, 0>>,
      VersionYearZero, <<1, 1, 1, 0, 0, 0>>, <<2023, 12, 31, 23, 59, 59>>,
      <<2024, 1, 1, 0, 0, 0>>, VersionLeapDay, VersionMarch, <<2024, 3, 1, 0, 0, 1>>,
      <<9999, 12, 31, 23, 59, 59>> }

InitCompare ==
    /\ pc = "compare"
    /\ currentVersion \in VersionSamples
    /\ indexVersion \in VersionSamples
    /\ exitCode = -1
    /\ rootFile = "valid"
    /\ indexFile = NoIndexFile
    /\ files = [n \in FileNames |-> NoFile]
    /\ remote = GarbageBytes
    /\ targetIndexFile = NilBytes
    /\ foundDesiredTargetIndexLocally = 0
    /\ resolveErr = FALSE
    /\ newProductVersion = 0
    /\ userAnswer = 0
    /\ url = NoUrl
    /\ dl = NoDownload
    /\ verficationAnswer = 0
    /\ now = Instant(0, 0, 0)
    /\ report = NoReport
    /\ stdin = <<>>
    /\ handled = FALSE
    /\ events = <<>>

\* Line 164: one call of NewVersion.
Compare ==
    /\ pc = "compare"
    /\ newProductVersion' = NewVersion(currentVersion, indexVersion)
    /\ pc' = "compared"
    /\ events' = <<"compare">>
    /\ UNCHANGED <<exitCode, rootFile, indexFile, files, remote, targetIndexFile,
                   foundDesiredTargetIndexLocally, resolveErr, currentVersion,
                   indexVersion, userAnswer, url, dl, verficationAnswer, now, report, stdin,
                   handled>>

NextCompare == Compare

SpecCompare == InitCompare /\ [][NextCompare]_vars

\* --------------------------------------- the trust bootstrap on its own

\* The number of times an event is in the trace.
Count(e) == Cardinality({i \in 1..Len(events) : events[i] = e})

InitTrust ==
    /\ pc = "trust"
    /\ rootFile \in {"absent", "valid", "invalid"}
    /\ exitCode = -1
    /\ indexFile = NoIndexFile
    /\ files = [n \in FileNames |-> NoFile]
    /\ remote = GarbageBytes
    /\ targetIndexFile = NilBytes
    /\ foundDesiredTargetIndexLocally = 0
    /\ resolveErr = FALSE
    /\ currentVersion = EmptyString
    /\ indexVersion = EmptyString
    /\ newProductVersion = 0
    /\ userAnswer = 0
    /\ url = NoUrl
    /\ dl = NoDownload
    /\ verficationAnswer = 0
    /\ now = Instant(0, 0, 0)
    /\ report = NoReport
    /\ stdin = <<>>
    /\ handled = FALSE
    /\ events = <<>>

\* Line 62, again and again: one more call of InitTrustOnFirstUse.
Trust ==
    /\ pc = "trust"
    /\ Count("bootstrap") < MaxCalls
    /\ TrustCall
    /\ pc' = pc

NextTrust == Trust

SpecTrust == InitTrust /\ [][NextTrust]_vars

\* ---------------------------------------- the consent gate on its own

\* The lines tried: all those of up to MaxLine characters among these.
ConsentChars == {"0", "1", "2", "x", "+", "-", " "}
ConsentLines == UNION { [1..n -> ConsentChars] : n \in 0..MaxLine }

InitConsent ==
    /\ pc = "prompt"
    /\ stdin \in ConsentLines
    /\ exitCode = -1
    /\ rootFile = "valid"
    /\ indexFile = NoIndexFile
    /\ files = [n \in FileNames |-> NoFile]
    /\ remote = GarbageBytes
    /\ targetIndexFile = NilBytes
    /\ foundDesiredTargetIndexLocally = 0
    /\ resolveErr = FALSE
    /\ currentVersion = EmptyString
    /\ indexVersion = EmptyString
    /\ newProductVersion = 0
    /\ userAnswer = 0
    /\ url = NoUrl
    /\ dl = NoDownload
    /\ verficationAnswer = 0
    /\ now = Instant(0, 0, 0)
    /\ report = NoReport
    /\ handled = FALSE
    /\ events = <<>>

\* Lines 174-176: gettingUserAnswer reads the line and main branches on it.
Ask ==
    /\ pc = "prompt"
    /\ userAnswer' = gettingUserAnswer(stdin)
    /\ pc' = AfterAnswer(userAnswer')
    /\ events' = <<"prompt">>
    /\ UNCHANGED <<exitCode, rootFile, indexFile, files, remote, targetIndexFile,
                   foundDesiredTargetIndexLocally, resolveErr, currentVersion,
                   indexVersion, newProductVersion, url, dl, verficationAnswer,
                   now, report, stdin, handled>>

NextConsent == Ask

SpecConsent == InitConsent /\ [][NextConsent]_vars

\* ------------------------------------- the expiration report on its own

At(value, ns) == [AddDate(value, 0) EXCEPT !.ns = ns]

\* Running versions: two that do not parse, and valid ones from year 0 to
\* year 9999, one of them on a leap day.
ExpiryVersions ==
    { EmptyString, VersionNoSuchDay, VersionYearZero, <<2024, 1, 1, 0, 0, 0>>,
      VersionLeapDay, VersionMarch, <<9999, 12, 31, 23, 59, 59>> }

\* Readings of the clock: before, at and after two years past the versions
\* of 2024, to the nanosecond, and far from them.
Clock ==
    { At(<<1970, 1, 1, 0, 0, 0>>, 0),
      At(<<2024, 3, 1, 0, 0, 0>>, 1),
      At(<<2025, 3, 1, 0, 0, 0>>, 0),
      At(<<2025, 3, 1, 0, 0, 0>>, 2),
      At(<<2026, 2, 28, 23, 59, 59>>, 500000000),
      At(<<2026, 3, 1, 0, 0, 0>>, 0),
      At(<<2026, 3, 1, 0, 0, 1>>, 0),
      At(<<2026, 11, 1, 12, 34, 56>>, 789),
      At(<<2027, 2, 28, 23, 59, 59>>, 999999998),
      At(<<2300, 1, 1, 0, 0, 0>>, 0) }

InitExpiry ==
    /\ pc = "expiry"
    /\ currentVersion \in ExpiryVersions
    /\ now \in Clock
    /\ report = NoReport
    /\ exitCode = -1
    /\ rootFile = "valid"
    /\ indexFile = NoIndexFile
    /\ files = [n \in FileNames |-> NoFile]
    /\ remote = GarbageBytes
    /\ targetIndexFile = NilBytes
    /\ foundDesiredTargetIndexLocally = 0
    /\ resolveErr = FALSE
    /\ indexVersion = EmptyString
    /\ newProductVersion = 0
    /\ userAnswer = 0
    /\ url = NoUrl
    /\ dl = NoDownload
    /\ verficationAnswer = 0
    /\ stdin = <<>>
    /\ handled = FALSE
    /\ events = <<>>

\* Lines 128 and 207: one call of PrintExpirationDate.
Expiry ==
    /\ pc = "expiry"
    /\ report' = PrintExpirationDate(currentVersion, now)
    /\ pc' = "printed"
    /\ events' = <<"expiry">>
    /\ UNCHANGED <<exitCode, rootFile, indexFile, files, remote, targetIndexFile,
                   foundDesiredTargetIndexLocally, resolveErr, currentVersion,
                   indexVersion, newProductVersion, userAnswer, url, dl,
                   verficationAnswer, now, stdin, handled>>

NextExpiry == Expiry

SpecExpiry == InitExpiry /\ [][NextExpiry]_vars

\* ================================================================== claims

Has(e) == \E i \in 1..Len(events) : events[i] = e
Pos(e) == CHOOSE i \in 1..Len(events) : events[i] = e /\ \A j \in 1..(i - 1) : events[j] # e

\* The events are those of an iteration of the polling loop.
InIteration == events # <<>> /\ events[1] = "resolve"

\* The order of two version strings as timestamps, read off their fields.
RECURSIVE LexLess(_, _)
LexLess(a, b) ==
    /\ a # <<>>
    /\ b # <<>>
    /\ \/ Head(a) < Head(b)
       \/ Head(a) = Head(b) /\ LexLess(Tail(a), Tail(b))

Valid(version) == ~TimeParse(version).err

\* C1: in an iteration where the index was downloaded (not found locally)
\* and the comparison says newer, a download is preceded by the prompt and by
\* the answer 1; after another answer the iteration downloads nothing, leaves
\* the artifact files as they are and goes to sleep.
C1_ConsentBeforeFetch ==
    /\ [](InIteration /\ foundDesiredTargetIndexLocally = 0 /\ newProductVersion = 1
            => /\ Has("fetch") => Has("prompt") /\ Pos("prompt") < Pos("fetch")
                                    /\ userAnswer = 1
               /\ Has("prompt") /\ userAnswer # 1
                    => ~Has("fetch") /\ ~Has("write_artifact") /\ ~dl.called
                         /\ pc = "sleep")
    /\ [][pc = "prompt" /\ newProductVersion = 1 /\ userAnswer' # 1
            => files' = files /\ pc' = "sleep"]_vars

C1_Witness ==
    /\ InIteration
    /\ foundDesiredTargetIndexLocally = 0
    /\ newProductVersion = 1
    /\ Has("prompt")
    /\ userAnswer = 2
    /\ pc = "sleep"

\* C2: when the resolution of an iteration returns an error, the iteration
\* does not write the index file, does not prompt, does not download, and the
\* process does not end.
C2_ResolutionErrorAbortsCycle ==
    InIteration /\ resolveErr
        => ~Has("write_index") /\ ~Has("prompt") /\ ~Has("fetch") /\ pc # "exited"

\* C3: an iteration prompts, downloads or verifies only when the comparison
\* found the index version newer than the running one (stated for the
\* iterations whose resolution returned no error and where both versions are
\* valid timestamps).
C3_SequenceOnlyWhenNewer ==
    /\ InIteration
    /\ ~resolveErr
    /\ Valid(currentVersion)
    /\ Valid(indexVersion)
    /\ (Has("prompt") \/ Has("fetch") \/ Has("verify"))
    => newProductVersion = 1

\* C4: an iteration whose resolution is a cache hit reports the local index
\* as the most updated one, writes no index file, does not prompt, download or
\* verify, and leaves every file as it is.
C4_CacheHitDoesNothing ==
    /\ [](InIteration /\ foundDesiredTargetIndexLocally = 1
            => /\ Has("most_updated")
               /\ ~Has("write_index") /\ ~Has("prompt") /\ ~Has("fetch")
               /\ ~Has("verify") /\ ~dl.called
               /\ pc = "sleep")
    /\ [][pc = "resolve" /\ foundDesiredTargetIndexLocally' = 1
            => indexFile' = indexFile /\ files' = files /\ pc' = "sleep"]_vars

C4_Witness ==
    /\ InIteration
    /\ foundDesiredTargetIndexLocally = 1
    /\ Has("most_updated")
    /\ pc = "sleep"

\* C5: no artifact URL is built from an empty version and no comparison has
\* an empty version as an operand.
C5_EmptyVersionNeverUsed ==
    /\ url.built => url.version # EmptyString
    /\ Has("compare") => currentVersion # EmptyString /\ indexVersion # EmptyString

\* C6: when the running version or the index version does not parse,
\* NewVersion returns 0.
C6_ParseFailureIsNoUpdate ==
    pc = "compared" /\ (~Valid(currentVersion) \/ ~Valid(indexVersion))
        => newProductVersion = 0

\* C7 as stated: for valid versions NewVersion tells newer, older and same
\* apart, so the result for an older index is neither the one for a newer
\* index nor the one for the same version.
C7_ThreeOutcomes ==
    pc = "compared" /\ Valid(currentVersion) /\ Valid(indexVersion)
        => /\ LexLess(currentVersion, indexVersion) => newProductVersion = 1
           /\ LexLess(indexVersion, currentVersion)
                => newProductVersion \notin {1, NewVersion(currentVersion, currentVersion)}

\* C7 as amended: for valid versions NewVersion returns 1 when the index
\* version is the later timestamp and 0 when it is the same or the earlier
\* one.
C7_NewerOrNot ==
    pc = "compared" /\ Valid(currentVersion) /\ Valid(indexVersion)
        => newProductVersion = (IF LexLess(currentVersion, indexVersion) THEN 1 ELSE 0)

C7_Witness ==
    /\ pc = "compared"
    /\ Valid(currentVersion)
    /\ Valid(indexVersion)
    /\ LexLess(indexVersion, currentVersion)
    /\ newProductVersion = 0

\* C8: the verification answers 1 exactly when the file under the default
\* name can be read and its digest equals, whatever the case of the letters,
\* the digest the index declares for the product.
C8_VerifyIffDigestEqualFold ==
    Has("verify")
        => (verficationAnswer = 1
              <=> /\ files[DefaultFileName].exists
                  /\ Unmarshal(targetIndexFile).data # EmptyMap
                  /\ Product \in DOMAIN Unmarshal(targetIndexFile).data
                  /\ EqualFold(Unmarshal(targetIndexFile).data[Product].Sha256,
                               HexLower(Sum256(files[DefaultFileName].data))))

\* C9: when the artifact store answers with a status other than 200,
\* downloadArtifact returns the status error and no file is created or changed.
C9_BadStatusLeavesFiles ==
    [][(pc \in {"start_fetch", "fetch"} /\ dl'.status \notin {0, StatusOK})
         => dl'.name = "" /\ dl'.err = "status" /\ files' = files]_vars

C9_Witness ==
    /\ dl.called
    /\ dl.status = 404
    /\ dl.err = "status"
    /\ files[DefaultFileName] = FileOf(<<0>>)

\* C10: after any error of the download the process has ended with exit
\* code 1 without verifying; the process ends in no other way, and once ended
\* it takes no step.
C10_FetchFailureIsFatal ==
    /\ [](/\ dl.called /\ dl.err # "nil"
             => pc = "exited" /\ exitCode = 1 /\ ~Has("verify")
          /\ pc = "exited" => dl.called /\ dl.err # "nil" /\ exitCode = 1
          /\ pc # "exited" => exitCode = -1)
    /\ [][pc # "exited"]_vars

C10_Witness ==
    /\ pc = "exited"
    /\ exitCode = 1
    /\ dl.err = "copy"
    /\ InIteration

\* C11: the running version is the version of the first resolution once the
\* startup is over, and no step of the polling loop changes it.
C11_RunningVersionFixed ==
    /\ [](pc = "sleep" /\ ~InIteration
            => currentVersion = Lookup(Unmarshal(targetIndexFile).data, Product).Version)
    /\ [][(pc \in {"sleep", "resolve", "prompt", "fetch", "exited"})
            => currentVersion' = currentVersion]_vars

C11_Witness ==
    /\ InIteration
    /\ pc = "sleep"
    /\ newProductVersion = 1
    /\ userAnswer = 1
    /\ Has("success")
    /\ Valid(currentVersion)
    /\ indexVersion # currentVersion

\* C12: a call of InitTrustOnFirstUse that finds root.json issues no request
\* and leaves the file as it is, and over any number of calls root.json is
\* written at most once.
C12_TrustWrittenOnce ==
    /\ [](Count("write_root") <= 1)
    /\ [][(rootFile # "absent")
            => rootFile' = rootFile /\ events' = events \o <<"bootstrap">>]_vars

C12_Witness ==
    /\ pc = "trust"
    /\ Count("bootstrap") >= 3
    /\ Count("get_root") = 2
    /\ Count("write_root") = 1
    /\ events[Len(events) - 1] = "bootstrap"

\* Whether a line is the number 1: spaces aside, an optional sign and then
\* digits only, of value 1.
RECURSIVE AllDigits(_)
AllDigits(text) == text = <<>> \/ (IsDigit(Head(text)) /\ AllDigits(Tail(text)))

RECURSIVE TrimRight(_)
TrimRight(text) ==
    IF text # <<>> /\ text[Len(text)] = " "
    THEN TrimRight(SubSeq(text, 1, Len(text) - 1))
    ELSE text

IsNumberOne(line) ==
    LET text == TrimRight(SkipSpace(line))
        signed == text # <<>> /\ Head(text) \in {"+", "-"}
        rest == IF signed THEN Tail(text) ELSE text
    IN  /\ rest # <<>>
        /\ AllDigits(rest)
        /\ ScanDigits(rest, 0, FALSE).value = 1
        /\ ~(signed /\ Head(text) = "-")

\* C13: after the prompt main goes on to the download if and only if the line
\* the operator typed is the number 1.
C13_ProceedIffOne ==
    events = <<"prompt">> => (pc = "fetch" <=> IsNumberOne(stdin))

\* The time from now to two years after the version, whatever its length.
Remaining(version, currentDate) ==
    LET expiration == AddDate(version, 2)
    IN  IF InstantBefore(expiration, currentDate)
        THEN Elapsed(expiration, currentDate, TRUE)
        ELSE Elapsed(currentDate, expiration, FALSE)

\* C14: what PrintExpirationDate prints for a version that parses is the time
\* from now to two years after the version: no part of it has the other
\* sign, a version expired by a second or more gives a negative part, and
\* the parts add up to that time cut to whole seconds.
C14_SignedRemainder ==
    pc = "printed" /\ report.printed =>
        LET d == Remaining(currentVersion, now)
            parts == {report.years, report.days, report.hours, report.minutes,
                      report.seconds}
        IN  /\ \A p \in parts : IF d.neg THEN p <= 0 ELSE p >= 0
            /\ d.neg /\ (d.days > 0 \/ d.secs > 0) => \E p \in parts : p < 0
            /\ report.years * 365 + report.days = Signed(d.neg, d.days)
            /\ report.hours * 3600 + report.minutes * 60 + report.seconds
                   = Signed(d.neg, d.secs)

\* C15: once an iteration has downloaded the index and gone through with it,
\* every later iteration that finds the same index published is a cache hit
\* that neither asks the operator nor downloads.
C15_HandledIndexIsCacheHit ==
    InIteration /\ handled =>
        /\ foundDesiredTargetIndexLocally = 1
        /\ ~Has("prompt")
        /\ ~Has("fetch")

\* C16: in an iteration that resolved a newer index, the file the verifier
\* reads is the file downloadArtifact has just written, and success is
\* reported only when the bytes written have the digest the index declares.
C16_VerifiesWhatWasWritten ==
    InIteration /\ ~resolveErr /\ newProductVersion = 1 /\ Has("verify") =>
        /\ dl.name = DefaultFileName
        /\ Has("success") =>
              /\ files[dl.name].exists
              /\ Lookup(Unmarshal(targetIndexFile).data, Product).Sha256
                     = HexLower(Sum256(files[dl.name].data))

\* C17 as stated: wherever a download is made, the operator was asked before
\* it and answered 1.
C17_NoFetchWithoutConsent ==
    Has("fetch") => Has("prompt") /\ Pos("prompt") < Pos("fetch") /\ userAnswer = 1

\* C17, amended: a download of the polling loop is preceded in its iteration
\* by the prompt and the answer 1, whatever the comparison gave; the download
\* at startup is made without the operator being asked.
C17_ConsentInLoopOnly ==
    /\ InIteration /\ (Has("fetch") \/ dl.called)
         => Has("prompt") /\ Pos("prompt") < Pos("fetch") /\ userAnswer = 1
    /\ ~InIteration /\ pc \notin {"prompt", "fetch"} => ~Has("prompt") /\ userAnswer = 0

C17_Witness ==
    /\ ~InIteration
    /\ pc = "sleep"
    /\ Has("fetch")
    /\ Has("write_artifact")
    /\ ~Has("prompt")

\* C18: when the bootstrap has left no root.json, main goes on, root.json
\* stays absent, no iteration bootstraps again, and every resolution, at
\* startup and in the loop, returns an error, no bytes and 0.
C18_NoRootNoResolution ==
    /\ [](pc # "boot" /\ rootFile = "absent"
            => /\ Has("resolve")
                    => resolveErr /\ targetIndexFile = NilBytes
                         /\ foundDesiredTargetIndexLocally = 0
               /\ InIteration => ~Has("bootstrap") /\ ~Has("get_root")
                                   /\ ~Has("write_root"))
    /\ [][(pc = "boot") => pc' = "start_resolve" /\ exitCode' = exitCode]_vars
    /\ [][(pc # "boot") => rootFile' = rootFile]_vars

C18_Witness ==
    /\ rootFile = "absent"
    /\ InIteration
    /\ Has("resolve")
    /\ resolveErr
    /\ handled = FALSE
    /\ pc = "sleep"

\* An iteration that ended the process in a failed download.
FatalFetch == pc = "exited" /\ InIteration /\ Has("fetch") /\ Has("exit") /\ exitCode = 1

\* C19: an iteration that begins resolves; unless a failed download ends the
\* process it comes to its sleep, whatever branch it took, and the sleep is
\* followed by the next iteration, which resolves again.
C19_LoopRepeats ==
    /\ (pc = "resolve") ~> (InIteration /\ Has("resolve"))
    /\ (InIteration /\ Has("resolve")) ~> (pc = "sleep" \/ FatalFetch)
    /\ (pc = "sleep") ~> (pc = "resolve" /\ events = <<>>)

C19_Witness ==
    /\ InIteration
    /\ pc = "sleep"
    /\ Has("mismatch")
    /\ handled

====
